---------------------------- MODULE Spec2Model ----------------------------
(***************************************************************************)
(* Model of the tritium measurement classes of                             *)
(* src/analysis/tritium/lsc_measurements_mod.py: LSCSample, LIBRASample    *)
(* and GasStream, and of the functions of src/analysis/tritium/helpers.py  *)
(* that label and group the samples.                                       *)
(*                                                                         *)
(* Representation.                                                         *)
(*  - LSCSample objects live in `heap`, indexed by an object id; a         *)
(*    LIBRASample is the list of the ids of its vials and a GasStream the  *)
(*    list of its LIBRASamples, so the same object may sit at several      *)
(*    places, as Python's references allow.                                *)
(*  - An activity is an integer number of activity units (Bq).             *)
(*  - A standard deviation is carried by its square (field stdev2), so    *)
(*    that sqrt(sum of squares) stays in the integers: stdev_addition      *)
(*    returns the square of what the code returns.  Floating-point         *)
(*    rounding is modelled where an LSCSample is built from count values   *)
(*    (mean and standard deviation), and not in the sums of activities.    *)
(*  - A value that the code computes as the bare Python int 0 (an empty    *)
(*    sum) is told apart from a pint quantity by the field `q`.            *)
(*  - Magnitudes are scalars, but in the specification of the constructor, *)
(*    which is handed scalars and arrays of count values.                  *)
(*  - A str is the sequence of its characters.                             *)
(***************************************************************************)
EXTENDS Integers, Sequences, FiniteSets

VARIABLES
    heap,      \* object id -> LSCSample (activity, stdev2, repeated, background_substracted)
    stream,    \* GasStream.samples: a sequence of LIBRASample.samples (sequences of ids)
    ret,       \* the outcome of the last call: what it was, what it raised or returned
    input      \* the arguments of a function or constructor under check; <<>> elsewhere

vars == <<heap, stream, ret, input>>

(* ------------------------------ bounds -------------------------------- *)
NObj == 2           \* LSCSample objects of the sample-level specification
MaxAct == 2         \* activities are 0..MaxAct
MaxVar == 1         \* squared standard deviations of repeated counts are 0..MaxVar
MaxVials == 4       \* a LIBRASample holds 0..MaxVials vials
MaxSamples == 3     \* a GasStream holds 1..MaxSamples LIBRASamples
NVials == 6         \* and NVials vials at most in all
MaxBuilt == 2       \* vials of a sample of general.json: 0..MaxBuilt filenames of each kind
MaxRows == 3        \* rows of a file, and labels given to a reader, at most
MaxBq1 == 2         \* Bq:1 values of a file: 1..MaxBq1
MaxSquare == 4      \* squared standard deviations given to stdev_addition: 0..MaxSquare
MaxTime == 3        \* timestamps are 0..MaxTime minutes
FloatBits == 3      \* floating-point numbers carry FloatBits significant bits
MaxCount == 7       \* count values are 0..MaxCount units
MaxCounts == 4      \* an LSCSample is built from 1..MaxCounts count values
MaxInput == 3       \* create_gas_streams is handed 0..MaxInput samples
MaxLabelLen == 10   \* labels of the label specification are 0..MaxLabelLen characters long

Ids == 1..NObj
Activities == 0..MaxAct
Variances == 0..MaxVar

Max(a, b) == IF a >= b THEN a ELSE b

Min(a, b) == IF a <= b THEN a ELSE b

RECURSIVE SumSeq(_)
SumSeq(s) == IF s = <<>> THEN 0 ELSE Head(s) + SumSeq(Tail(s))

(* ----------------------------- LSCSample ------------------------------ *)

\* LSCSample.__init__: a sample that is not repeated has stdev 0; a repeated
\* one has the mean and the standard deviation of its counts.  No background
\* has been substracted.
LSCSampleNew(activity, stdev2, repeated) ==
    [activity |-> activity,
     stdev2 |-> IF repeated THEN stdev2 ELSE 0,
     repeated |-> repeated,
     background_substracted |-> FALSE]

\* The LSCSample objects the constructor can produce within the bounds.
FreshSamples ==
    {LSCSampleNew(a, v, r) : a \in Activities, v \in Variances, r \in BOOLEAN}

\* A value of the Python code: a pint quantity of magnitude m (q), or the bare
\* int 0 that an empty sum leaves.
Qty(m) == [q |-> TRUE, m |-> m]
Int0 == [q |-> FALSE, m |-> 0]

\* Python's x + y where an int is always 0: pint adds a bare zero to a quantity
\* and gives a quantity; 0 + 0 stays an int.
Add(x, y) == [q |-> x.q \/ y.q, m |-> x.m + y.m]

RECURSIVE SumSquares(_)
SumSquares(stdevs) ==
    IF stdevs = <<>> THEN Int0 ELSE Add(Head(stdevs), SumSquares(Tail(stdevs)))

\* stdev_addition keeping the last standard deviation only.
stdev_addition_Last(stdevs) ==
    IF stdevs = <<>> THEN Int0 ELSE stdevs[Len(stdevs)]

\* LSCSample.stdev_addition: sqrt(sum(std**2 for std in stdevs)), on squared
\* values: the sum of the squares.
stdev_addition(stdevs) == SumSquares(stdevs)

\* The call recorded when nothing has been called yet.
NoCall ==
    [op |-> "none", self |-> 0, bg |-> 0, raised |-> "none", warned |-> FALSE]

\* Substracted without the clipping of a negative difference.
Substracted_NoClip(self, background_sample) ==
    [self EXCEPT
        !.activity = self.activity - background_sample.activity,
        !.stdev2 = stdev_addition(<<Qty(self.stdev2), Qty(background_sample.stdev2)>>).m,
        !.background_substracted = TRUE]

\* Substracted leaving the standard deviation alone when the activity is clipped.
Substracted_NoStdevWhenClipped(self, background_sample) ==
    LET diff == self.activity - background_sample.activity
    IN [self EXCEPT
            !.activity = IF diff < 0 THEN 0 ELSE diff,
            !.stdev2 = IF diff < 0 THEN self.stdev2
                       ELSE stdev_addition(<<Qty(self.stdev2), Qty(background_sample.stdev2)>>).m,
            !.background_substracted = TRUE]

\* Substracted without setting the flag.
Substracted_NoFlag(self, background_sample) ==
    LET diff == self.activity - background_sample.activity
    IN [self EXCEPT
            !.activity = IF diff < 0 THEN 0 ELSE diff,
            !.stdev2 = stdev_addition(<<Qty(self.stdev2), Qty(background_sample.stdev2)>>).m]

\* LSCSample.substract_background past its guard: the activity minus the
\* background's, set to zero when negative; the standard deviations added in
\* quadrature; the flag set.
Substracted(self, background_sample) ==
    LET diff == self.activity - background_sample.activity
    IN [self EXCEPT
            !.activity = IF diff < 0 THEN 0 ELSE diff,
            !.stdev2 = stdev_addition(<<Qty(self.stdev2), Qty(background_sample.stdev2)>>).m,
            !.background_substracted = TRUE]

\* Whether that call warns: the difference is negative.
Warns(self, background_sample) ==
    self.activity - background_sample.activity < 0

\* SubstractOn without the guard on the flag.
SubstractOn_NoGuard(h, s, b) ==
    [heap |-> [h EXCEPT ![s] = Substracted(h[s], h[b])],
     raised |-> "none",
     warned |-> Warns(h[s], h[b])]

\* LSCSample.substract_background on the heap h: the heap after the call and
\* what the call raised.  An object may be its own background.
SubstractOn(h, s, b) ==
    IF h[s].background_substracted
    THEN [heap |-> h, raised |-> "ValueError", warned |-> FALSE]
    ELSE [heap |-> [h EXCEPT ![s] = Substracted(h[s], h[b])],
          raised |-> "none",
          warned |-> Warns(h[s], h[b])]

\* The step of a call whose outcome is r: the heap it leaves, and the call
\* recorded with what it raised.
Called(call, r) ==
    /\ heap' = r.heap
    /\ ret' = [call EXCEPT !.raised = r.raised, !.warned = r.warned]
    /\ UNCHANGED <<stream, input>>

\* A call sample.substract_background(background_sample) on two objects of the heap.
LSCSample_substract_background(s, b) ==
    Called([op |-> "LSCSample.substract_background", self |-> s, bg |-> b,
            raised |-> "none", warned |-> FALSE],
           SubstractOn(heap, s, b))

(* ------------------ specification of one LSCSample -------------------- *)

\* Freshly constructed samples; any of them is substracted from any of them.
InitSample ==
    /\ heap \in [Ids -> FreshSamples]
    /\ stream = <<>>
    /\ ret = NoCall
    /\ input = <<>>

NextSample ==
    \E s \in Ids, b \in Ids : LSCSample_substract_background(s, b)

SpecSample == InitSample /\ [][NextSample]_vars

(* ---------------------------- LIBRASample ----------------------------- *)

\* What an activity getter returns: (act, stdev) when tuple, act alone otherwise.
NoStdev == [q |-> FALSE, m |-> -1]
Returned(tuple, act, stdev) ==
    [tuple |-> tuple, act |-> act, stdev |-> IF tuple THEN stdev ELSE NoStdev]

\* is_repeated of the three getters: any vial of the sample is repeated.
is_repeated(h, samples) ==
    \E i \in 1..Len(samples) : h[samples[i]].repeated

\* The loop "act += sample.activity" from act = 0 over the vials part.
RECURSIVE SumActivity(_, _)
SumActivity(h, part) ==
    IF part = <<>> THEN Int0
    ELSE Add(SumActivity(h, SubSeq(part, 1, Len(part) - 1)),
             Qty(h[part[Len(part)]].activity))

\* The stdev loop that keeps the last vial's value only, nothing accumulated.
SumStdev_LastOnly(h, part) ==
    IF part = <<>> THEN Int0 ELSE Qty(h[part[Len(part)]].stdev2)

\* The loop "stdev = stdev_addition([stdev, sample.stdev])" from stdev = 0.
RECURSIVE SumStdev(_, _)
SumStdev(h, part) ==
    IF part = <<>> THEN Int0
    ELSE stdev_addition(<<SumStdev(h, SubSeq(part, 1, Len(part) - 1)),
                          Qty(h[part[Len(part)]].stdev2)>>)

\* self.samples[:2] and self.samples[2:]
SolubleVials(samples) == SubSeq(samples, 1, Min(2, Len(samples)))

\* InsolubleVials from the second vial on: the second vial counted twice.
InsolubleVials_FromSecond(samples) == SubSeq(samples, 2, Len(samples))
InsolubleVials(samples) == SubSeq(samples, 3, Len(samples))

\* LIBRASample.get_soluble_activity
get_soluble_activity(h, samples) ==
    Returned(is_repeated(h, samples),
             SumActivity(h, SolubleVials(samples)),
             SumStdev(h, SolubleVials(samples)))

\* LIBRASample.get_insoluble_activity
get_insoluble_activity(h, samples) ==
    Returned(is_repeated(h, samples),
             SumActivity(h, InsolubleVials(samples)),
             SumStdev(h, InsolubleVials(samples)))

\* The end of get_total_activity from the two getters' results s and i: when
\* the sample is repeated, the pairs unpacked, the activities added and the
\* standard deviations added in quadrature; otherwise the activities added.
TotalOf(repeated, s, i) ==
    IF repeated
    THEN Returned(TRUE, Add(s.act, i.act), stdev_addition(<<s.stdev, i.stdev>>))
    ELSE Returned(FALSE, Add(s.act, i.act), NoStdev)

\* LIBRASample.get_total_activity
get_total_activity(h, samples) ==
    TotalOf(is_repeated(h, samples),
            get_soluble_activity(h, samples),
            get_insoluble_activity(h, samples))

Forms == {"total", "soluble", "insoluble"}

\* The getter that get_cumulative_activity calls for a form.
get_activity(h, samples, form) ==
    CASE form = "total" -> get_total_activity(h, samples)
      [] form = "soluble" -> get_soluble_activity(h, samples)
      [] form = "insoluble" -> get_insoluble_activity(h, samples)

\* LIBRASample.substract_background: the vials in list order, each on the heap
\* the earlier ones left; the first ValueError ends the loop.
RECURSIVE SubstractAll(_, _, _)
SubstractRest(r, rest, b) ==
    IF r.raised # "none" THEN r ELSE SubstractAll(r.heap, rest, b)
SubstractAll(h, samples, b) ==
    IF samples = <<>> THEN [heap |-> h, raised |-> "none", warned |-> FALSE]
    ELSE SubstractRest(SubstractOn(h, Head(samples), b), Tail(samples), b)

\* The call made all-or-nothing: nothing is changed when a vial of the sample
\* was already background-substracted.
LIBRASample_substract_background_AllOrNothing(i, b) ==
    Called([op |-> "LIBRASample.substract_background", self |-> i, bg |-> b,
            raised |-> "none", warned |-> FALSE],
           IF \E j \in 1..Len(stream[i]) : heap[stream[i][j]].background_substracted
           THEN [heap |-> heap, raised |-> "ValueError", warned |-> FALSE]
           ELSE SubstractAll(heap, stream[i], b))

\* A call stream.samples[i].substract_background(background_sample).
LIBRASample_substract_background(i, b) ==
    Called([op |-> "LIBRASample.substract_background", self |-> i, bg |-> b,
            raised |-> "none", warned |-> FALSE],
           SubstractAll(heap, stream[i], b))

\* A call of one of the three getters of stream.samples[i].
LIBRASample_get_activity(i, form) ==
    /\ ret' = [op |-> "LIBRASample.get_activity", self |-> i, form |-> form,
               raised |-> "none", value |-> get_activity(heap, stream[i], form)]
    /\ UNCHANGED <<heap, stream, input>>

(* ----------------------------- GasStream ------------------------------ *)

\* append_stdev that appends the value alone, not added to the last entry.
append_stdev_Alone(stdev_list, stdev_val) == Append(stdev_list, stdev_val)

\* GasStream.append_stdev: the first value as it is, a later one added in
\* quadrature to the last entry of the list.
append_stdev(stdev_list, stdev_val) ==
    IF stdev_list = <<>> THEN <<stdev_val>>
    ELSE Append(stdev_list,
                stdev_addition(<<stdev_list[Len(stdev_list)], stdev_val>>))

\* The loop of get_cumulative_activity over the results of the getters: the
\* list of the activities, and the list append_stdev builds.
RECURSIVE AppendStdevs(_)
AppendStdevs(results) ==
    IF results = <<>> THEN <<>>
    ELSE append_stdev(AppendStdevs(SubSeq(results, 1, Len(results) - 1)),
                      results[Len(results)].stdev)

\* ureg.Quantity.from_list on a non-empty list: the magnitudes of the
\* quantities; a bare int in the list has no units and raises AttributeError.
from_list(quant_list) ==
    IF \E k \in 1..Len(quant_list) : ~quant_list[k].q
    THEN [raised |-> "AttributeError", m |-> <<>>]
    ELSE [raised |-> "none", m |-> [k \in 1..Len(quant_list) |-> quant_list[k].m]]

\* cumsum that leaves the list as it is.
cumsum_Identity(m) == m

\* numpy's cumsum: the k-th entry is the sum of the first k.
cumsum(m) == [k \in 1..Len(m) |-> SumSeq(SubSeq(m, 1, k))]

\* The result of a call that raised.
Raised(e) == [raised |-> e, tuple |-> FALSE, cum |-> <<>>, stdevs |-> <<>>]

\* The end of get_cumulative_activity: the two lists through from_list, the
\* activities through cumsum.
CumulativeOf(tuple, acts, stdevs) ==
    IF acts.raised # "none" THEN Raised(acts.raised)
    ELSE IF stdevs.raised # "none" THEN Raised(stdevs.raised)
    ELSE [raised |-> "none", tuple |-> tuple,
          cum |-> cumsum(acts.m), stdevs |-> stdevs.m]

\* The loops of get_cumulative_activity over the getters' results.  With any
\* vial of the stream repeated each result is unpacked as a pair, which raises
\* TypeError for a sample that returns its activity alone, and the list of the
\* standard deviations is built; otherwise that list stays empty.
LoopOver(stream_repeated, results) ==
    IF stream_repeated
    THEN IF \E i \in 1..Len(results) : ~results[i].tuple THEN Raised("TypeError")
         ELSE CumulativeOf(TRUE,
                           from_list([i \in 1..Len(results) |-> results[i].act]),
                           from_list(AppendStdevs(results)))
    ELSE CumulativeOf(FALSE,
                      from_list([i \in 1..Len(results) |-> results[i].act]),
                      [raised |-> "none", m |-> <<>>])

\* get_cumulative_activity that looks at the flags of the first sample only.
get_cumulative_activity_FirstSampleChecked(h, samples, form) ==
    IF \E j \in 1..Len(samples[1]) : ~h[samples[1][j]].background_substracted
    THEN Raised("ValueError")
    ELSE LoopOver(\E i \in 1..Len(samples) : is_repeated(h, samples[i]),
                  [i \in 1..Len(samples) |-> get_activity(h, samples[i], form)])

\* GasStream.get_cumulative_activity(form) on a stream of at least one sample.
get_cumulative_activity(h, samples, form) ==
    IF \E i \in 1..Len(samples) : \E j \in 1..Len(samples[i]) :
            ~h[samples[i][j]].background_substracted
    THEN Raised("ValueError")
    ELSE LoopOver(\E i \in 1..Len(samples) : is_repeated(h, samples[i]),
                  [i \in 1..Len(samples) |-> get_activity(h, samples[i], form)])

\* The call recorded with its result.
Returning(call, r) ==
    [call EXCEPT !.raised = r.raised, !.tuple = r.tuple,
                 !.cum = r.cum, !.stdevs = r.stdevs]

\* A call stream.get_cumulative_activity(form).
GasStream_get_cumulative_activity(form) ==
    /\ ret' = Returning([op |-> "GasStream.get_cumulative_activity", form |-> form,
                         raised |-> "none", tuple |-> FALSE,
                         cum |-> <<>>, stdevs |-> <<>>],
                        get_cumulative_activity(heap, stream, form))
    /\ UNCHANGED <<heap, stream, input>>

(* ------------- specifications of a LIBRASample and a GasStream --------- *)

\* The two background samples: repeated counts of activity zero and MaxAct.
BgIds == {-2, -1}
Background(b) == LSCSampleNew(IF b = -1 THEN 0 ELSE MaxAct, MaxVar, TRUE)

\* The heap of the vials 1..n and of the two backgrounds.
HeapOf(vials) ==
    [id \in BgIds \cup DOMAIN vials |->
        IF id \in BgIds THEN Background(id) ELSE vials[id]]

\* The vials of a LIBRASample: any activity, counted once or repeatedly, the
\* repeated ones with a standard deviation of MaxVar.
LibraVials == {LSCSampleNew(a, MaxVar, r) : a \in Activities, r \in BOOLEAN}

\* One LIBRASample of 0..MaxVials freshly constructed vials.
InitLibra ==
    \E n \in 0..MaxVials :
        /\ \E vials \in [1..n -> LibraVials] : heap = HeapOf(vials)
        /\ stream = << [j \in 1..n |-> j] >>
        /\ ret = NoCall
        /\ input = <<>>

NextLibra ==
    \/ \E b \in BgIds : LIBRASample_substract_background(1, b)
    \/ \E form \in Forms : LIBRASample_get_activity(1, form)

SpecLibra == InitLibra /\ [][NextLibra]_vars

\* The numbers of vials of the samples of a stream: 1..MaxSamples samples of
\* 0..MaxVials vials each, NVials vials at most in all.
Layouts ==
    {sizes \in UNION {[1..k -> 0..MaxVials] : k \in 1..MaxSamples} :
        SumSeq(sizes) <= NVials}

\* The stream of a layout: sample i holds the next sizes[i] object ids.
StreamOf(sizes) ==
    [i \in 1..Len(sizes) |->
        [j \in 1..sizes[i] |-> SumSeq(SubSeq(sizes, 1, i - 1)) + j]]

\* The sample that holds vial v in the stream strm.
SampleOf(strm, v) ==
    CHOOSE i \in 1..Len(strm) : \E j \in 1..Len(strm[i]) : strm[i][j] = v

\* A stream of freshly constructed vials of activity 1; the vials of one
\* sample were all counted once, or all counted repeatedly.
InitStream ==
    \E sizes \in Layouts : \E repeated \in [1..Len(sizes) -> BOOLEAN] :
        /\ stream = StreamOf(sizes)
        /\ heap = HeapOf([v \in 1..SumSeq(sizes) |->
                            LSCSampleNew(1, MaxVar, repeated[SampleOf(StreamOf(sizes), v)])])
        /\ ret = NoCall
        /\ input = <<>>

NextStream ==
    \/ \E i \in 1..Len(stream), b \in BgIds : LIBRASample_substract_background(i, b)
    \/ \E form \in Forms : GasStream_get_cumulative_activity(form)

SpecStream == InitStream /\ [][NextStream]_vars

(* ------------------- helpers.extract_info_from_label ------------------ *)

\* A string is the sequence of its characters.
Chars == {"-", "_", "L"}
Strings(n) == UNION {[1..k -> Chars] : k \in 0..n}

\* The labels that the code's error message and the documentation give.
ExampleLabel == <<"1", "L", "-", "I", "V", "_", "2", "-", "1", "-", "3">>
BadLabel == <<"b", "a", "d", "-", "l", "a", "b", "e", "l">>

\* str.split(sep), a character at a time from the right end: a separator
\* opens a new first token, any other character extends the first token.
SplitStep(c, sep, rest) ==
    IF c = sep THEN << <<>> >> \o rest
    ELSE << <<c>> \o Head(rest) >> \o Tail(rest)

RECURSIVE split(_, _)
split(s, sep) ==
    IF s = <<>> THEN << <<>> >>
    ELSE SplitStep(Head(s), sep, split(Tail(s), sep))

NoInfo == [volume |-> <<>>, stream |-> <<>>, run_nb |-> <<>>,
           sample_nb |-> <<>>, vial_nb |-> <<>>]
LabelError == [raised |-> "ValueError", info |-> NoInfo]

\* Assignments that take the first and the last token of the prefix and the
\* first three of the suffix, whatever their numbers.
UnpackInfo_NoLengthCheck(vs, rsv) ==
    IF Len(rsv) < 3 THEN LabelError
    ELSE [raised |-> "none",
          info |-> [volume |-> vs[1], stream |-> vs[Len(vs)], run_nb |-> rsv[1],
                    sample_nb |-> rsv[2], vial_nb |-> rsv[3]]]

\* The dictionary with run_nb and sample_nb taken in the other order.
UnpackInfo_Swapped(vs, rsv) ==
    IF Len(vs) # 2 \/ Len(rsv) # 3 THEN LabelError
    ELSE [raised |-> "none",
          info |-> [volume |-> vs[1], stream |-> vs[2], run_nb |-> rsv[2],
                    sample_nb |-> rsv[1], vial_nb |-> rsv[3]]]

\* The two tuple assignments and the return: an assignment to two (three)
\* names of a list of another length raises ValueError.
UnpackInfo(vs, rsv) ==
    IF Len(vs) # 2 \/ Len(rsv) # 3 THEN LabelError
    ELSE [raised |-> "none",
          info |-> [volume |-> vs[1], stream |-> vs[2], run_nb |-> rsv[1],
                    sample_nb |-> rsv[2], vial_nb |-> rsv[3]]]

\* volume_stream, run_sample_vial = label.split("_") and what follows it.
SplitInfo(parts) == UnpackInfo(split(parts[1], "-"), split(parts[2], "-"))

\* helpers.extract_info_from_label
extract_info_from_label(label) ==
    IF Len(split(label, "-")) # 4 \/ Len(split(label, "_")) # 2
    THEN LabelError
    ELSE SplitInfo(split(label, "_"))

\* A call extract_info_from_label(label).
helpers_extract_info_from_label(label) ==
    /\ ret' = [op |-> "extract_info_from_label", label |-> label,
               result |-> extract_info_from_label(label)]
    /\ UNCHANGED <<heap, stream, input>>

\* The label: any string of up to MaxLabelLen characters, or one of the two
\* documented labels.
InitLabel ==
    /\ input \in Strings(MaxLabelLen) \cup {ExampleLabel, BadLabel}
    /\ heap = <<>>
    /\ stream = <<>>
    /\ ret = NoCall

NextLabel == helpers_extract_info_from_label(input)

SpecLabel == InitLabel /\ [][NextLabel]_vars

(* --------------------- helpers.create_gas_streams --------------------- *)

\* What create_gas_streams reads of its arguments: sample.name of each sample
\* of the list, by position, and the table
\* general_data["timestamps"]["lsc_sample_times"], from <<stream, key>> to the
\* time under "actual".  A time is a number of minutes.
IV == <<"I", "V">>
OV == <<"O", "V">>
XV == <<"X", "V">>
RunNbs == {<<"1">>, <<"2">>}
SampleNbs == {<<"1">>, <<"2">>}

\* The label <volume>-<stream>_<run>-<sample>-<vial> of volume 1L.
Label(strm, run_nb, sample_nb, vial_nb) ==
    <<"1", "L", "-">> \o strm \o <<"_">> \o run_nb \o <<"-">> \o sample_nb
        \o <<"-">> \o vial_nb

\* The names of the input samples: IV and OV labels of two runs and two sample
\* numbers, a label of another stream, and a label without the format.
InputLabels ==
    {Label(s, r, n, <<"1">>) : s \in {IV, OV}, r \in RunNbs, n \in SampleNbs}
        \cup {Label(XV, <<"1">>, <<"1">>, <<"1">>), BadLabel}

\* f"{run_nb}-{sample_nb}-x"
TimeKey(run_nb, sample_nb) == run_nb \o <<"-">> \o sample_nb \o <<"-", "x">>

\* The keys of a full table, and a table that lacks the keys of missing.
TableKeys == {<<s, TimeKey(r, n)>> : s \in {IV, OV}, r \in RunNbs, n \in SampleNbs}
Minutes(key) ==
    (IF key[1] = IV THEN 0 ELSE 100) + (IF key[2][1] = "1" THEN 10 ELSE 20)
        + (IF key[2][3] = "1" THEN 1 ELSE 2)
TableWithout(missing) == [key \in TableKeys \ missing |-> Minutes(key)]

\* extract_info_from_label(sample.name) of every sample of the list, and of
\* the sample at position i.
Infos(samples) ==
    [i \in 1..Len(samples) |-> extract_info_from_label(samples[i])]
InfoOf(infos, i) == infos[i]

\* The positions, in list order, of the samples of a stream: all_IV_samples
\* and all_OV_samples.
RECURSIVE PositionsOf(_, _, _)
PositionsOf(infos, strm, n) ==
    IF n = 0 THEN <<>>
    ELSE IF InfoOf(infos, n).info.stream = strm
         THEN Append(PositionsOf(infos, strm, n - 1), n)
         ELSE PositionsOf(infos, strm, n - 1)

\* A dictionary that puts a new sample number before the others.
GroupStep_NewFirst(groups, sample_nb, i) ==
    IF \E k \in 1..Len(groups) : groups[k].sample_nb = sample_nb
    THEN [k \in 1..Len(groups) |->
            IF groups[k].sample_nb = sample_nb
            THEN [groups[k] EXCEPT !.samples = Append(@, i)]
            ELSE groups[k]]
    ELSE <<[sample_nb |-> sample_nb, samples |-> <<i>>]>> \o groups

\* One more sample in the dictionary sample_nb -> list, a dictionary being the
\* sequence of its items in insertion order.
GroupStep(groups, sample_nb, i) ==
    IF \E k \in 1..Len(groups) : groups[k].sample_nb = sample_nb
    THEN [k \in 1..Len(groups) |->
            IF groups[k].sample_nb = sample_nb
            THEN [groups[k] EXCEPT !.samples = Append(@, i)]
            ELSE groups[k]]
    ELSE Append(groups, [sample_nb |-> sample_nb, samples |-> <<i>>])

\* IV_samples and OV_samples: the loop over the positions of a stream.
RECURSIVE Grouped(_, _)
Grouped(infos, positions) ==
    IF positions = <<>> THEN <<>>
    ELSE GroupStep(Grouped(infos, SubSeq(positions, 1, Len(positions) - 1)),
                   InfoOf(infos, positions[Len(positions)]).info.sample_nb,
                   positions[Len(positions)])

\* The outcome of create_gas_streams: what it raised, how many LIBRASamples
\* it had constructed by then, and the two streams it returned, each the list
\* of its LIBRASamples.
Failed(e, built) == [raised |-> e, built |-> built, streams |-> <<>>]

\* LIBRASample(samples, time=time_sample)
LIBRASampleNew(samples, time) == [samples |-> samples, time |-> time]

\* The loop that makes the LIBRASamples of a stream from its groups, after
\* built others were made: the first key that the table lacks raises KeyError.
FirstMissing(table, strm, run_nb, groups) ==
    {k \in 1..Len(groups) :
        /\ <<strm, TimeKey(run_nb, groups[k].sample_nb)>> \notin DOMAIN table
        /\ \A j \in 1..(k - 1) :
              <<strm, TimeKey(run_nb, groups[j].sample_nb)>> \in DOMAIN table}

AsLibraSamples(table, strm, run_nb, groups) ==
    [k \in 1..Len(groups) |->
        LIBRASampleNew(groups[k].samples,
                       table[<<strm, TimeKey(run_nb, groups[k].sample_nb)>>])]

\* The number of LIBRASamples made of the groups before the first missing key.
BuiltBefore(missing) == (CHOOSE k \in missing : TRUE) - 1

\* The two loops that make the LIBRASamples, that leave out the groups whose
\* key the table lacks.
MakeStreams_SkipMissing(table, run_nb, IV_samples, OV_samples) ==
    [raised |-> "none",
     built |-> Len(IV_samples) + Len(OV_samples),
     streams |-> <<AsLibraSamples(table, IV, run_nb,
                      SelectSeq(IV_samples, LAMBDA g :
                          <<IV, TimeKey(run_nb, g.sample_nb)>> \in DOMAIN table)),
                   AsLibraSamples(table, OV, run_nb,
                      SelectSeq(OV_samples, LAMBDA g :
                          <<OV, TimeKey(run_nb, g.sample_nb)>> \in DOMAIN table))>>]

\* The two loops that make the LIBRASamples, the IV ones first, and the
\* return of the two GasStreams.
MakeStreams(table, run_nb, IV_samples, OV_samples) ==
    IF FirstMissing(table, IV, run_nb, IV_samples) # {}
    THEN Failed("KeyError", BuiltBefore(FirstMissing(table, IV, run_nb, IV_samples)))
    ELSE IF FirstMissing(table, OV, run_nb, OV_samples) # {}
    THEN Failed("KeyError", Len(IV_samples)
                  + BuiltBefore(FirstMissing(table, OV, run_nb, OV_samples)))
    ELSE [raised |-> "none",
          built |-> Len(IV_samples) + Len(OV_samples),
          streams |-> <<AsLibraSamples(table, IV, run_nb, IV_samples),
                        AsLibraSamples(table, OV, run_nb, OV_samples)>>]

\* The assertion on the run numbers of the IV samples and what follows it.
CheckRun(infos, table, all_IV_samples, all_OV_samples, run_nb) ==
    IF \E k \in 1..Len(all_IV_samples) :
          InfoOf(infos, all_IV_samples[k]).info.run_nb # run_nb
    THEN Failed("AssertionError", 0)
    ELSE MakeStreams(table, run_nb, Grouped(infos, all_IV_samples),
                     Grouped(infos, all_OV_samples))

\* run_nb = extract_info_from_label(all_IV_samples[0].name)["run_nb"] and what
\* follows it: without an IV sample the index raises IndexError.
TakeRun(infos, table, all_IV_samples, all_OV_samples) ==
    IF all_IV_samples = <<>> THEN Failed("IndexError", 0)
    ELSE CheckRun(infos, table, all_IV_samples, all_OV_samples,
                  InfoOf(infos, all_IV_samples[1]).info.run_nb)

\* The first loop: ValueError on a label without the format and on a stream
\* other than IV and OV.
SplitByStream(infos, table) ==
    IF \E i \in 1..Len(infos) :
          \/ InfoOf(infos, i).raised # "none"
          \/ InfoOf(infos, i).info.stream \notin {IV, OV}
    THEN Failed("ValueError", 0)
    ELSE TakeRun(infos, table, PositionsOf(infos, IV, Len(infos)),
                 PositionsOf(infos, OV, Len(infos)))

\* helpers.create_gas_streams
create_gas_streams(samples, table) == SplitByStream(Infos(samples), table)

\* A call create_gas_streams(samples, start_time, general_data).
helpers_create_gas_streams ==
    /\ ret' = [op |-> "create_gas_streams",
               result |-> create_gas_streams(input.samples, input.timestamps)]
    /\ UNCHANGED <<heap, stream, input>>

\* Any list of 0..MaxInput samples named by InputLabels, and a table that is
\* full or lacks one key.
InitGas ==
    /\ \E n \in 0..MaxInput : \E samples \in [1..n -> InputLabels] :
       \E missing \in {{}} \cup {{key} : key \in TableKeys} :
          input = [samples |-> samples, timestamps |-> TableWithout(missing)]
    /\ heap = <<>>
    /\ stream = <<>>
    /\ ret = NoCall

NextGas == helpers_create_gas_streams

SpecGas == InitGas /\ [][NextGas]_vars

(* ---------------- LSCSample.__init__ from count values ---------------- *)

\* Floating-point numbers are binary, of FloatBits significant bits, rounded
\* to the nearest, ties to the even one, as IEEE 754 doubles are but narrower.
\* A number is an integer count of the smallest spacing of the format.
RECURSIVE Spacing(_, _, _)
Spacing(a, b, q) ==
    IF a < b * q * (2 ^ FloatBits) THEN q ELSE Spacing(a, b, 2 * q)

\* The neighbour of a / bq among the multiples k and k + 1 of the spacing.
Nearest(a, bq, k) ==
    IF 2 * (a - k * bq) < bq THEN k
    ELSE IF 2 * (a - k * bq) > bq THEN k + 1
    ELSE IF k % 2 = 0 THEN k ELSE k + 1

\* a / b rounded to a floating-point number, a >= 0 and b > 0.
RoundAt(a, b, q) == q * Nearest(a, b * q, a \div (b * q))
RoundDiv(a, b) == RoundAt(a, b, Spacing(a, b, 1))
Round(a) == RoundDiv(a, 1)

Abs(x) == IF x < 0 THEN 0 - x ELSE x

\* The sum that numpy's add.reduce makes of a short array: one addition
\* after the other, each rounded.
RECURSIVE FloatSum(_)
FloatSum(values) ==
    IF values = <<>> THEN 0
    ELSE Round(FloatSum(SubSeq(values, 1, Len(values) - 1)) + values[Len(values)])

\* np.mean that returns the first value.
mean_First(values) == values[1]

\* np.mean
mean(values) == RoundDiv(FloatSum(values), Len(values))

\* np.std(activity, ddof=1), by its square: the squared deviations from the
\* mean, summed, over n - 1; of one value it is nan.  Squares are counted in
\* quarters of the squared unit, fine enough for none to underflow.
NaN == -1
SquaredDeviations(values, m) ==
    [i \in 1..Len(values) |-> Round(4 * Round(Abs(values[i] - m)) ^ 2)]
std2(values) ==
    IF Len(values) = 1 THEN NaN
    ELSE RoundDiv(FloatSum(SquaredDeviations(values, mean(values))),
                  Len(values) - 1)

\* What the constructor is handed: a scalar, or an array of the count values.
Scalar(v) == [array |-> FALSE, values |-> <<v>>]
Array(values) == [array |-> TRUE, values |-> values]

\* self.repeated when every array counts as repeated.
IsRepeatedCounts_AnyArray(activity) == activity.array

\* self.repeated = isinstance(activity.magnitude, np.ndarray)
\*                 and activity.magnitude.size > 1
IsRepeatedCounts(activity) == activity.array /\ Len(activity.values) > 1

\* LSCSample.__init__(activity, name)
LSCSampleFromCounts(activity) ==
    IF IsRepeatedCounts(activity)
    THEN LSCSampleNew(Scalar(mean(activity.values)), std2(activity.values), TRUE)
    ELSE LSCSampleNew(activity, 0, FALSE)

\* A call LSCSample(activity, name).
LSCSample_init ==
    /\ heap' = <<LSCSampleFromCounts(input)>>
    /\ ret' = [op |-> "LSCSample.__init__"]
    /\ UNCHANGED <<stream, input>>

\* The count values: the floating-point numbers up to MaxCount.
CountValues == {v \in 0..MaxCount : Round(v) = v}

\* One count value as a scalar, or 1..MaxCounts count values as an array.
InitCounts ==
    /\ \/ \E v \in CountValues : input = Scalar(v)
       \/ \E n \in 1..MaxCounts : \E values \in [1..n -> CountValues] :
             input = Array(values)
    /\ heap = <<>>
    /\ stream = <<>>
    /\ ret = NoCall

NextCounts == LSCSample_init

SpecCounts == InitCounts /\ [][NextCounts]_vars

(* ------------------------ GasStream.relative_times -------------------- *)

\* A time is handed over as a str in DATE_FORMAT or as a datetime; either way
\* it is an instant, counted in minutes.
Times == [str : BOOLEAN, minutes : 0..MaxTime]

\* datetime.strptime(time, DATE_FORMAT)
strptime(time) == [str |-> FALSE, minutes |-> time.minutes]

\* LIBRASample.__init__: self._time; GasStream.__init__: self.start_time
AsDatetime(time) == IF time.str THEN strptime(time) ELSE time

\* The difference of two datetimes: a timedelta, in minutes.
Minus(t, s) == t.minutes - s.minutes

\* LIBRASample.get_relative_time(start_time), self._time being sample_time
get_relative_time(sample_time, start_time) ==
    Minus(sample_time, AsDatetime(start_time))

\* s with x put before the first entry that is larger.
RECURSIVE Inserted(_, _)
Inserted(s, x) ==
    IF s = <<>> THEN <<x>>
    ELSE IF x <= Head(s) THEN <<x>> \o s
    ELSE <<Head(s)>> \o Inserted(Tail(s), x)

RECURSIVE Sorted(_)
Sorted(s) ==
    IF s = <<>> THEN <<>>
    ELSE Inserted(Sorted(SubSeq(s, 1, Len(s) - 1)), s[Len(s)])

\* relative_times that gives the durations in increasing order.
relative_times_Sorted(sample_times, start_time) ==
    Sorted([i \in 1..Len(sample_times) |->
              get_relative_time(sample_times[i], start_time)])

\* GasStream.relative_times, sample_times being the _time of the samples
relative_times(sample_times, start_time) ==
    [i \in 1..Len(sample_times) |->
        get_relative_time(sample_times[i], start_time)]

\* A read of the property relative_times of the GasStream made of the input.
GasStream_relative_times ==
    /\ ret' = [op |-> "GasStream.relative_times",
               value |-> relative_times(
                   [i \in 1..Len(input.times) |-> AsDatetime(input.times[i])],
                   AsDatetime(input.start_time))]
    /\ UNCHANGED <<heap, stream, input>>

\* The times of 0..MaxSamples LIBRASamples, in any order, and a start time.
InitTimes ==
    /\ \E n \in 0..MaxSamples : \E times \in [1..n -> Times] :
       \E start_time \in Times :
          input = [times |-> times, start_time |-> start_time]
    /\ heap = <<>>
    /\ stream = <<>>
    /\ ret = NoCall

NextTimes == GasStream_relative_times

SpecTimes == InitTimes /\ [][NextTimes]_vars

(* ---------------------- LSCSample.stdev_addition ---------------------- *)

\* The standard deviations given to stdev_addition, as their squares:
\* quantities, or the bare int 0 an earlier empty sum returned.
Stdevs == {Qty(m) : m \in 0..MaxSquare} \cup {Int0}

\* The static method called on [a, b], on [b, a], on [a, b, c] and on its own
\* result for [a, b] followed by c.
LSCSample_stdev_addition ==
    /\ ret = NoCall
    /\ "a" \in DOMAIN input
    /\ ret' = [op |-> "LSCSample.stdev_addition",
               ab |-> stdev_addition(<<input.a, input.b>>),
               ba |-> stdev_addition(<<input.b, input.a>>),
               abc |-> stdev_addition(<<input.a, input.b, input.c>>),
               ab_c |-> stdev_addition(
                            <<stdev_addition(<<input.a, input.b>>), input.c>>),
               raised |-> "none", warned |-> FALSE]
    /\ UNCHANGED <<heap, stream, input>>

InitAddition ==
    /\ \E a \in Stdevs, b \in Stdevs, c \in Stdevs :
          input = [a |-> a, b |-> b, c |-> c]
    /\ heap = <<>>
    /\ stream = <<>>
    /\ ret = NoCall

NextAddition == LSCSample_stdev_addition

SpecAddition == InitAddition /\ [][NextAddition]_vars

(* ------------- LSCFileReader.get_bq1_values_with_labels --------------- *)

\* None, the label to give for a missing vial.
NoLabel == "None"

\* The labels of the vials of a file.
VialLabels == {"1L-BL-1", "1L-IV_2-1-1", NoLabel}

\* self.vial_labels: None, or a list of labels.
NoLabels == [given |-> FALSE, labels |-> <<>>]
Labels(labels) == [given |-> TRUE, labels |-> labels]

\* self.data: None before read_file, afterwards a table whose column Bq:1
\* holds the values.
NoData == [read |-> FALSE, values |-> <<>>]
Data(values) == [read |-> TRUE, values |-> values]

\* labelled_values[label].append(value) on a defaultdict(list).
DictAppend(d, label, value) ==
    [k \in DOMAIN d \cup {label} |->
        IF k # label THEN d[k]
        ELSE IF label \in DOMAIN d THEN Append(d[label], value) ELSE <<value>>]

\* The loop over zip(self.vial_labels, values), up to row n.
RECURSIVE LabelledValues(_, _, _)
LabelledValues(vial_labels, values, n) ==
    IF n = 0 THEN <<>>
    ELSE DictAppend(LabelledValues(vial_labels, values, n - 1),
                    vial_labels[n], values[n])

\* A value of the returned dict: a float (v[0]) or a list of floats.
AsFloat(v) == [list |-> FALSE, values |-> <<v[1]>>]
AsList(v) == [list |-> TRUE, values |-> v]

\* The conversion made label by label: a label with one value gets a float
\* even when another label has several.
Converted_PerLabel(labelled_values) ==
    [k \in DOMAIN labelled_values |->
        IF Len(labelled_values[k]) = 1 THEN AsFloat(labelled_values[k])
        ELSE AsList(labelled_values[k])]

\* Single floats if all the labels have exactly one value, else the lists.
Converted(labelled_values) ==
    IF \A k \in DOMAIN labelled_values : Len(labelled_values[k]) = 1
    THEN [k \in DOMAIN labelled_values |-> AsFloat(labelled_values[k])]
    ELSE [k \in DOMAIN labelled_values |-> AsList(labelled_values[k])]

\* LSCFileReader.get_bq1_values_with_labels: ValueError without labels,
\* AssertionError when the file was not read (get_bq1_values) or when the
\* labels and the values differ in number.
get_bq1_values_with_labels(vial_labels, data) ==
    IF ~vial_labels.given THEN [raised |-> "ValueError", value |-> <<>>]
    ELSE IF ~data.read THEN [raised |-> "AssertionError", value |-> <<>>]
    ELSE IF Len(vial_labels.labels) # Len(data.values)
    THEN [raised |-> "AssertionError", value |-> <<>>]
    ELSE [raised |-> "none",
          value |-> Converted(LabelledValues(vial_labels.labels, data.values,
                                             Len(data.values)))]

LSCFileReader_get_bq1_values_with_labels ==
    /\ ret = NoCall
    /\ LET r == get_bq1_values_with_labels(input.vial_labels, input.data)
       IN ret' = [op |-> "LSCFileReader.get_bq1_values_with_labels",
                  value |-> r.value, raised |-> r.raised, warned |-> FALSE]
    /\ UNCHANGED <<heap, stream, input>>

\* The readers: labels given or not, file read or not.
LabelLists == UNION {[1..n -> VialLabels] : n \in 0..MaxRows}
ValueLists == UNION {[1..n -> 1..MaxBq1] : n \in 0..MaxRows}

InitReader ==
    /\ \E vial_labels \in {NoLabels} \cup {Labels(l) : l \in LabelLists} :
       \E data \in {NoData} \cup {Data(v) : v \in ValueLists} :
          input = [vial_labels |-> vial_labels, data |-> data]
    /\ heap = <<>>
    /\ stream = <<>>
    /\ ret = NoCall

NextReader == LSCFileReader_get_bq1_values_with_labels

SpecReader == InitReader /\ [][NextReader]_vars

(* --------------------------- create_sample ---------------------------- *)

\* The LSC files on disk and the labels of their column SMPL_ID.
Filenames == {"a.csv", "b.csv"}
BackgroundLabels == <<"1L-BL-1", "1L-BL-2", "1L-BL-3">>
FileLabels == {"1L-IV_2-1-1"} \cup {BackgroundLabels[i] : i \in 1..3}

\* The Bq:1 value of the row of a label: each label occurs once in a file.
Bq1Of(label) ==
    IF \E i \in 1..3 : BackgroundLabels[i] = label
    THEN CHOOSE i \in 1..3 : BackgroundLabels[i] = label
    ELSE 2

\* None, given for background_filename or background_label.
None == "None"

\* LSCFileReader(filename, labels_column="SMPL_ID"): the object has the
\* attribute file_path, and no attribute filename.
LSCFileReaderNew(file_path) ==
    [file_path |-> file_path, labels_column |-> "SMPL_ID"]

\* A call of create_sample that raises e: the module's lists are unchanged.
Raise(e, readers, quench) ==
    [raised |-> e, warned |-> FALSE, returned |-> FALSE,
     sample |-> LSCSampleNew(0, 0, FALSE),
     all_file_readers |-> readers, all_quench |-> quench]

\* LSCSample.from_file(file_reader, vial_name) on a read file, given as the
\* set of its labels: ValueError if vial_name is not in the file.
from_file(file, vial_name) ==
    IF vial_name \notin file
    THEN [raised |-> "ValueError", sample |-> LSCSampleNew(0, 0, FALSE)]
    ELSE [raised |-> "none", sample |-> LSCSampleNew(Bq1Of(vial_name), 0, FALSE)]

\* sample.substract_background(background_sample) on the two new objects,
\* and the return of the sample.
ReturnSubstracted(sample, background_sample, readers, quench) ==
    [raised |-> "none", warned |-> Warns(sample, background_sample),
     returned |-> TRUE, sample |-> Substracted(sample, background_sample),
     all_file_readers |-> readers, all_quench |-> quench]

\* The loop "for file_reader in all_file_readers" reads file_reader.filename.
ReadsFilename(readers) ==
    \A i \in 1..Len(readers) : "filename" \in DOMAIN readers[i]

\* found: a reader of the list has this filename.
Found(readers, filename) ==
    \E i \in 1..Len(readers) : readers[i].filename = filename

\* helpers.create_sample(label, filename): the new reader is a local variable.
helpers_create_sample(readers, files, label, filename) ==
    IF ~ReadsFilename(readers) THEN Raise("AttributeError", readers, <<>>)
    ELSE LET sample == from_file(files[filename], label)
             background_sample == from_file(files[filename], "1L-BL-1")
         IN IF sample.raised # "none" THEN Raise(sample.raised, readers, <<>>)
            ELSE IF background_sample.raised # "none"
            THEN Raise(background_sample.raised, readers, <<>>)
            ELSE ReturnSubstracted(sample.sample, background_sample.sample,
                                   readers, <<>>)

\* The first of background_labels that from_file finds in the file, 0 if none.
FirstBackground(file) ==
    IF \E i \in 1..3 : BackgroundLabels[i] \in file
    THEN CHOOSE i \in 1..3 :
            /\ BackgroundLabels[i] \in file
            /\ \A j \in 1..(i - 1) : BackgroundLabels[j] \notin file
    ELSE 0

\* The background sample of tritium_model.create_sample.
BackgroundSample(file, background_label) ==
    IF background_label # None THEN from_file(file, background_label)
    ELSE IF FirstBackground(file) = 0
    THEN [raised |-> "ValueError", sample |-> LSCSampleNew(0, 0, FALSE)]
    ELSE from_file(file, BackgroundLabels[FirstBackground(file)])

\* tritium_model.create_sample from "file_reader.read_file()" on.
CreateFrom(readers, quench, files, call, background_filename) ==
    LET sample == from_file(files[call.filename], call.label)
        background_sample ==
            BackgroundSample(files[background_filename], call.background_label)
    IN IF sample.raised # "none" THEN Raise(sample.raised, readers, quench)
       ELSE IF background_sample.raised # "none"
       THEN Raise(background_sample.raised, readers, quench)
       ELSE ReturnSubstracted(sample.sample, background_sample.sample,
                              readers, Append(quench, call.filename))

\* tritium_model.create_sample: "file_reader = file_reader_main" after the
\* loop reads a local variable that is bound only when the loop has found a
\* reader for filename.
tritium_model_create_sample(readers, quench, files, call) ==
    IF ~ReadsFilename(readers) THEN Raise("AttributeError", readers, quench)
    ELSE IF ~Found(readers, call.filename)
    THEN Raise("UnboundLocalError", readers, quench)
    ELSE CreateFrom(readers, quench, files, call,
                    IF call.background_filename = None THEN call.filename
                    ELSE call.background_filename)

\* The step of a call of create_sample of a module, with its outcome r.
Created(call, module, r) ==
    /\ heap' = [heap EXCEPT ![module] =
                    [all_file_readers |-> r.all_file_readers,
                     all_quench |-> r.all_quench]]
    /\ ret' = [op |-> "create_sample", module |-> module, call |-> call,
               raised |-> r.raised, warned |-> r.warned,
               returned |-> r.returned, sample |-> r.sample]
    /\ UNCHANGED <<stream, input>>

\* The arguments of a call; helpers.create_sample has the first two only.
Call(label, filename, background_filename, background_label) ==
    [label |-> label, filename |-> filename,
     background_filename |-> background_filename,
     background_label |-> background_label]

helpers_create_sample_call(label, filename) ==
    Created(Call(label, filename, None, None), "helpers",
            helpers_create_sample(heap["helpers"].all_file_readers,
                                  input.files, label, filename))

tritium_model_create_sample_call(call) ==
    Created(call, "tritium_model",
            tritium_model_create_sample(
                heap["tritium_model"].all_file_readers,
                heap["tritium_model"].all_quench, input.files, call))

\* all_file_readers = [] and all_quench = [] in both modules; any files.
InitCreate ==
    /\ \E files \in [Filenames -> SUBSET FileLabels] : input = [files |-> files]
    /\ heap = [module \in {"helpers", "tritium_model"} |->
                  [all_file_readers |-> <<>>, all_quench |-> <<>>]]
    /\ stream = <<>>
    /\ ret = NoCall

NextCreate ==
    \E label \in {"1L-IV_2-1-1", "1L-BL-1"}, filename \in Filenames :
        \/ helpers_create_sample_call(label, filename)
        \/ \E background_filename \in Filenames \cup {None},
              background_label \in {None, "1L-BL-2"} :
              tritium_model_create_sample_call(
                  Call(label, filename, background_filename, background_label))

SpecCreate == InitCreate /\ [][NextCreate]_vars

(* ------------ tritium_model: the construction of the streams ---------- *)

\* The label f"1L-{stream}_{run_nb}-{sample_nb}-{vial_nb}" of the vials of
\* sample 1 of stream IV of run 2.
VialLabel == <<"1L-IV_2-1-1", "1L-IV_2-1-2", "1L-IV_2-1-3">>

\* Files that hold every vial and every background label.
FullFiles ==
    [f \in Filenames |-> FileLabels \cup {VialLabel[v] : v \in 1..3}]

\* The script before a sample of general.json is read: the name "sample" is
\* not bound (0), no object exists, the two lists of the sample are empty.
ScriptAt(readers, quench) ==
    [raised |-> "none", sample |-> 0, objects |-> <<>>,
     libra_samples |-> <<>>, libra_samples_repeat |-> <<>>,
     all_file_readers |-> readers, all_quench |-> quench]

\* "sample = create_sample(...)" with outcome r: an exception ends the
\* script; else the name "sample" is bound to the new object.
Assigned(st, name, r) ==
    IF r.raised # "none" THEN [st EXCEPT !.raised = r.raised]
    ELSE [st EXCEPT !.objects = Append(@, [name |-> name, sample |-> r.sample]),
                    !.sample = Len(st.objects) + 1,
                    !.all_file_readers = r.all_file_readers,
                    !.all_quench = r.all_quench]

\* One turn of the loop over lsc_vials_filenames: the sample is created and
\* appended to libra_samples.
VialStep(st, vial_nb, filename) ==
    LET made == Assigned(st, VialLabel[vial_nb],
                    tritium_model_create_sample(
                        st.all_file_readers, st.all_quench, FullFiles,
                        Call(VialLabel[vial_nb], filename, None, None)))
    IN IF made.raised # "none" THEN made
       ELSE [made EXCEPT !.libra_samples = Append(@, made.sample)]

\* Appending the object the name "sample" is bound to; NameError if the name
\* is not bound.
AppendSample(st) ==
    IF st.sample = 0 THEN [st EXCEPT !.raised = "NameError"]
    ELSE [st EXCEPT !.libra_samples_repeat = Append(@, st.sample)]

\* One turn of the loop over repeat_count_filenames: for the filename None an
\* empty_sample is built and tagged, and "sample" is appended; else the
\* sample is created with the repeat background file and appended.
RepeatStep(st, vial_nb, filename_repeat, repeat_background_filename) ==
    IF filename_repeat = None
    THEN AppendSample(
             [st EXCEPT !.objects = Append(@,
                  [name |-> VialLabel[vial_nb],
                   sample |-> [LSCSampleNew(0, 0, FALSE)
                                  EXCEPT !.background_substracted = TRUE]])])
    ELSE AppendSample(
             Assigned(st, VialLabel[vial_nb],
                 tritium_model_create_sample(
                     st.all_file_readers, st.all_quench, FullFiles,
                     Call(VialLabel[vial_nb], filename_repeat,
                          repeat_background_filename, None))))

\* The loop over lsc_vials_filenames up to vial n; an exception ends it.
RECURSIVE VialLoop(_, _, _)
VialLoop(st, filenames, n) ==
    IF n = 0 THEN st
    ELSE LET before == VialLoop(st, filenames, n - 1)
         IN IF before.raised # "none" THEN before
            ELSE VialStep(before, n, filenames[n])

\* The loop over repeat_count_filenames up to vial n.
RECURSIVE RepeatLoop(_, _, _, _)
RepeatLoop(st, filenames, background, n) ==
    IF n = 0 THEN st
    ELSE LET before == RepeatLoop(st, filenames, background, n - 1)
         IN IF before.raised # "none" THEN before
            ELSE RepeatStep(before, n, filenames[n], background)

\* The body of the loop over the samples of a stream for one sample_dict.
BuildSample(st, sample_dict) ==
    IF sample_dict.actual_sample_time = None THEN st
    ELSE RepeatLoop(
             VialLoop(st, sample_dict.lsc_vials_filenames,
                      Len(sample_dict.lsc_vials_filenames)),
             sample_dict.repeat_count_filenames,
             sample_dict.repeat_background_filename,
             Len(sample_dict.repeat_count_filenames))

\* The script builds the sample of general.json.
tritium_model_build ==
    /\ ret = NoCall
    /\ LET m == heap["tritium_model"]
           st == BuildSample(ScriptAt(m.all_file_readers, m.all_quench), input)
       IN /\ heap' = [heap EXCEPT !["tritium_model"] =
                         [all_file_readers |-> st.all_file_readers,
                          all_quench |-> st.all_quench]]
          /\ ret' = [op |-> "tritium_model.build", raised |-> st.raised,
                     warned |-> FALSE, objects |-> st.objects,
                     libra_samples |-> st.libra_samples,
                     libra_samples_repeat |-> st.libra_samples_repeat]
    /\ UNCHANGED <<stream, input>>

\* The lists of 0..MaxBuilt filenames of a sample of general.json.
FilenameLists(names) == UNION {[1..n -> names] : n \in 0..MaxBuilt}

\* One sample of general.json, with or without a sample time.
InitBuild ==
    /\ \E time \in {None, "11/03/2026 10:00"} :
       \E filenames \in FilenameLists(Filenames) :
       \E repeats \in FilenameLists(Filenames \cup {None}) :
       \E background \in Filenames :
          input = [actual_sample_time |-> time,
                   lsc_vials_filenames |-> filenames,
                   repeat_count_filenames |-> repeats,
                   repeat_background_filename |-> background]
    /\ heap = [module \in {"helpers", "tritium_model"} |->
                  [all_file_readers |-> <<>>, all_quench |-> <<>>]]
    /\ stream = <<>>
    /\ ret = NoCall

NextBuild == tritium_model_build

SpecBuild == InitBuild /\ [][NextBuild]_vars

(* --------------------- lsc_repeats: LSCRepeatSample ------------------- *)

\* LSCRepeatSample.__init__: the average and the standard deviation of the
\* counted activities; the object has no attribute "activity".
LSCRepeatSampleNew(avg_activity, stdev2) ==
    [avg_activity |-> avg_activity, stdev2 |-> stdev2,
     background_substracted |-> FALSE,
     has_activity |-> FALSE, activity |-> 0]

\* The assignments of LSCRepeatSample.substract_background: the background
\* average is substracted from avg_activity; when the result is negative the
\* attribute "activity" is set to 0 Bq.
RepeatSubstracted(self, background_sample) ==
    LET diff == self.avg_activity - background_sample.avg_activity
    IN [self EXCEPT
            !.avg_activity = diff,
            !.has_activity = IF diff < 0 THEN TRUE ELSE @,
            !.activity = IF diff < 0 THEN 0 ELSE @,
            !.stdev2 = stdev_addition(<<Qty(self.stdev2),
                                        Qty(background_sample.stdev2)>>).m,
            !.background_substracted = TRUE]

\* LSCRepeatSample.substract_background on the heap h.
RepeatSubstractOn(h, s, b) ==
    IF h[s].background_substracted
    THEN [heap |-> h, raised |-> "ValueError", warned |-> FALSE]
    ELSE [heap |-> [h EXCEPT ![s] = RepeatSubstracted(h[s], h[b])],
          raised |-> "none",
          warned |-> h[s].avg_activity - h[b].avg_activity < 0]

\* A call sample.substract_background(background_sample).
LSCRepeatSample_substract_background(s, b) ==
    Called([op |-> "LSCRepeatSample.substract_background", self |-> s,
            bg |-> b, raised |-> "none", warned |-> FALSE],
           RepeatSubstractOn(heap, s, b))

\* LIBRARepeatSample.substract_background: the vials in list order; the
\* first ValueError ends the loop.
RECURSIVE RepeatSubstractAll(_, _, _)
RepeatSubstractRest(r, rest, b) ==
    IF r.raised # "none" THEN r
    ELSE LET after == RepeatSubstractAll(r.heap, rest, b)
         IN [after EXCEPT !.warned = @ \/ r.warned]
RepeatSubstractAll(h, samples, b) ==
    IF samples = <<>> THEN [heap |-> h, raised |-> "none", warned |-> FALSE]
    ELSE RepeatSubstractRest(RepeatSubstractOn(h, Head(samples), b),
                             Tail(samples), b)

\* A call stream.samples[i].substract_background(background_sample).
LIBRARepeatSample_substract_background(i, b) ==
    Called([op |-> "LIBRARepeatSample.substract_background", self |-> i,
            bg |-> b, raised |-> "none", warned |-> FALSE],
           RepeatSubstractAll(heap, stream[i], b))

\* The loop "act += sample.activity" from act = 0 over the vials part:
\* AttributeError at the first vial that has no attribute "activity".
RepeatSum(h, part) ==
    IF \E j \in 1..Len(part) : ~h[part[j]].has_activity
    THEN [raised |-> "AttributeError", act |-> Int0]
    ELSE [raised |-> "none",
          act |-> SumActivity(h, part)]

\* LIBRARepeatSample.get_total_activity: the sum of the two getters' results.
RepeatTotal(s, i) ==
    IF s.raised # "none" THEN s
    ELSE IF i.raised # "none" THEN i
    ELSE [raised |-> "none", act |-> Add(s.act, i.act)]

\* The getter of LIBRARepeatSample that get_cumulative_activity calls.
repeat_get_activity(h, samples, form) ==
    CASE form = "soluble" -> RepeatSum(h, SolubleVials(samples))
      [] form = "insoluble" -> RepeatSum(h, InsolubleVials(samples))
      [] form = "total" -> RepeatTotal(RepeatSum(h, SolubleVials(samples)),
                                       RepeatSum(h, InsolubleVials(samples)))

\* The end of RepeatGasStream.get_cumulative_activity: an exception of a
\* getter ends the loop; else from_list and cumsum.
RepeatCumulativeOf(results, acts) ==
    IF \E i \in 1..Len(results) : results[i].raised # "none"
    THEN [raised |-> "AttributeError", cum |-> <<>>]
    ELSE IF acts.raised # "none" THEN [raised |-> acts.raised, cum |-> <<>>]
    ELSE [raised |-> "none", cum |-> cumsum(acts.m)]

\* RepeatGasStream.get_cumulative_activity(form) on a stream of at least one
\* sample.
repeat_get_cumulative_activity(h, samples, form) ==
    IF \E i \in 1..Len(samples) : \E j \in 1..Len(samples[i]) :
            ~h[samples[i][j]].background_substracted
    THEN [raised |-> "ValueError", cum |-> <<>>]
    ELSE LET results == [i \in 1..Len(samples) |->
                            repeat_get_activity(h, samples[i], form)]
         IN RepeatCumulativeOf(results,
                from_list([i \in 1..Len(samples) |-> results[i].act]))

\* A call stream.get_cumulative_activity(form).
RepeatGasStream_get_cumulative_activity(form) ==
    /\ LET r == repeat_get_cumulative_activity(heap, stream, form)
       IN ret' = [op |-> "RepeatGasStream.get_cumulative_activity",
                  form |-> form, raised |-> r.raised, cum |-> r.cum]
    /\ UNCHANGED <<heap, stream, input>>

\* The streams: one or two samples of one to three vials.
RepeatLayouts ==
    {<< <<1>> >>, << <<1, 2>> >>, << <<1>>, <<2>> >>,
     << <<1, 2, 3>> >>, << <<1>>, <<2, 3>> >>}

\* The vials they hold.
VialsOf(samples) == UNION {{samples[i][j] : j \in 1..Len(samples[i])} :
                              i \in 1..Len(samples)}

\* Freshly constructed vials of any average, and one background sample (-1).
InitRepeat ==
    /\ \E samples \in RepeatLayouts :
          /\ stream = samples
          /\ \E vials \in [VialsOf(samples) \cup {-1} ->
                    {LSCRepeatSampleNew(a, v) : a \in Activities, v \in Variances}] :
                heap = vials
    /\ ret = NoCall
    /\ input = <<>>

NextRepeat ==
    \/ \E s \in DOMAIN heap \ {-1} : LSCRepeatSample_substract_background(s, -1)
    \/ \E i \in 1..Len(stream) : LIBRARepeatSample_substract_background(i, -1)
    \/ \E form \in Forms : RepeatGasStream_get_cumulative_activity(form)

SpecRepeat == InitRepeat /\ [][NextRepeat]_vars

(* ------- a LIBRASample whose vials are also substracted one by one ----- *)

\* The background samples given: counted once or repeatedly, of activity
\* zero or MaxAct.
PartialBackgrounds ==
    {LSCSampleNew(a, MaxVar, r) : a \in {0, MaxAct}, r \in BOOLEAN}

\* One LIBRASample of one to three freshly constructed vials, and a
\* background sample (-1).
InitPartial ==
    /\ \E n \in {1, 2, 3} :
          /\ stream = << [j \in 1..n |-> j] >>
          /\ \E vials \in [1..n -> LibraVials], bg \in PartialBackgrounds :
                heap = [id \in {-1} \cup (1..n) |->
                           IF id = -1 THEN bg ELSE vials[id]]
    /\ ret = NoCall
    /\ input = <<>>

\* The background is substracted from one vial, or from the LIBRASample; the
\* background given to the LIBRASample may be one of its own vials.
NextPartial ==
    \/ \E s \in DOMAIN heap \ {-1} : LSCSample_substract_background(s, -1)
    \/ \E b \in DOMAIN heap : LIBRASample_substract_background(1, b)

SpecPartial == InitPartial /\ [][NextPartial]_vars

(* ----------------------- claims on one LSCSample ---------------------- *)

\* The step is a call of LSCSample.substract_background.
IsSubstractCall == ret'.op = "LSCSample.substract_background"

\* C1: a call of substract_background on a sample whose background was already
\* substracted raises ValueError and leaves the sample's activity, stdev and
\* flag as they were, whatever the two backgrounds.
C1_SecondCallRaisesAndKeepsState ==
    [][(IsSubstractCall /\ heap[ret'.self].background_substracted)
          => /\ ret'.raised = "ValueError"
             /\ heap'[ret'.self] = heap[ret'.self]]_vars

\* C1's case: a second call has failed on a sample that the first call changed.
C1_Witness ==
    /\ ret.op = "LSCSample.substract_background"
    /\ ret.raised = "ValueError"
    /\ heap[ret.self].background_substracted
    /\ heap[ret.self].stdev2 > 0
    /\ ret.bg # ret.self

\* C2 as stated: the flag starts false, a call makes it true, it never returns
\* to false, and the first call, and only it, changes the activity.
C2_ExactlyFirstCallChangesActivity ==
    /\ \A s \in Ids : ~heap[s].background_substracted
    /\ [][\A s \in Ids : heap[s].background_substracted
                            => heap'[s].background_substracted]_vars
    /\ [][IsSubstractCall
            => /\ heap'[ret'.self].background_substracted
               /\ heap[ret'.self].background_substracted
                    => heap'[ret'.self].activity = heap[ret'.self].activity
               /\ ~heap[ret'.self].background_substracted
                    => heap'[ret'.self].activity # heap[ret'.self].activity]_vars

\* C2 amended: the flag starts false, a call makes it true, it never returns to
\* false, and no call but the first changes the activity; the first changes it
\* exactly when max(activity - background activity, 0) differs from the
\* activity, so not with a background of zero activity.
C2_OnlyFirstCallChangesActivity ==
    /\ \A s \in Ids : ~heap[s].background_substracted
    /\ [][\A s \in Ids : heap[s].background_substracted
                            => heap'[s].background_substracted]_vars
    /\ [][IsSubstractCall
            => /\ heap'[ret'.self].background_substracted
               /\ heap[ret'.self].background_substracted
                    => heap'[ret'.self].activity = heap[ret'.self].activity
               /\ ~heap[ret'.self].background_substracted
                    => ((heap'[ret'.self].activity # heap[ret'.self].activity)
                        <=> (Max(heap[ret'.self].activity - heap[ret'.bg].activity, 0)
                                # heap[ret'.self].activity))]_vars

\* C2's case: a first call that changed nothing in the activity (background of
\* zero activity) has been followed by a failed call.
C2_Witness ==
    /\ ret.op = "LSCSample.substract_background"
    /\ ret.raised = "ValueError"
    /\ heap[ret.self].background_substracted
    /\ heap[ret.self].activity = MaxAct

\* C3: after a successful substract_background the activity is not negative: it
\* is the activity minus the background's when that is >= 0, and zero, with a
\* warning, when that is negative.
C3_ActivityClippedAtZero ==
    /\ [](\A s \in Ids : heap[s].background_substracted => heap[s].activity >= 0)
    /\ [][(IsSubstractCall /\ ret'.raised = "none")
            => LET diff == heap[ret'.self].activity - heap[ret'.bg].activity
               IN /\ heap'[ret'.self].activity >= 0
                  /\ diff >= 0 => (heap'[ret'.self].activity = diff /\ ~ret'.warned)
                  /\ diff < 0 => (heap'[ret'.self].activity = 0 /\ ret'.warned)]_vars

\* C3's case: a background larger than the activity was substracted.
C3_Witness ==
    /\ ret.op = "LSCSample.substract_background"
    /\ ret.raised = "none"
    /\ ret.warned
    /\ heap[ret.self].activity = 0
    /\ heap[ret.bg].activity > 0

\* C4: a successful substract_background leaves stdev^2 = (stdev before)^2 +
\* (background stdev)^2, also when the activity was clipped to zero.
C4_StdevAddedInQuadrature ==
    [][(IsSubstractCall /\ ret'.raised = "none")
          => heap'[ret'.self].stdev2
                = heap[ret'.self].stdev2 + heap[ret'.bg].stdev2]_vars

\* C4's case: the activity was clipped and both standard deviations count.
C4_Witness ==
    /\ ret.op = "LSCSample.substract_background"
    /\ ret.raised = "none"
    /\ ret.warned
    /\ heap[ret.bg].stdev2 > 0
    /\ heap[ret.self].stdev2 > heap[ret.bg].stdev2

(* ------------------------ claims on a GasStream ----------------------- *)

\* The last call was get_cumulative_activity.
IsCumulative == ret.op = "GasStream.get_cumulative_activity"

\* The vials of the stream, as (sample, position) pairs.
VialPlaces == {<<i, j>> \in (1..Len(stream)) \X (1..MaxVials) : j <= Len(stream[i])}

AllSubstracted ==
    \A p \in VialPlaces : heap[stream[p[1]][p[2]]].background_substracted
NoneSubstracted ==
    \A p \in VialPlaces : ~heap[stream[p[1]][p[2]]].background_substracted

\* C5: get_cumulative_activity(form) raises ValueError, for each form, whenever
\* some vial of some sample has no background substracted; and it fails on
\* every stream of at least one sample on which no substraction was done.
C5_RaisesUnlessAllSubstracted ==
    IsCumulative =>
        /\ ~AllSubstracted => ret.raised = "ValueError"
        /\ NoneSubstracted => ret.raised # "none"

\* C5's case: the call failed on a stream of which some samples, not all, had
\* their background substracted.
C5_Witness ==
    /\ IsCumulative
    /\ ret.raised = "ValueError"
    /\ ret.form = "insoluble"
    /\ ~AllSubstracted
    /\ \E p \in VialPlaces : heap[stream[p[1]][p[2]]].background_substracted
    /\ \A j \in 1..Len(stream[1]) : heap[stream[1][j]].background_substracted
    /\ stream[1] # <<>>

\* The activity and the squared standard deviation that the getter of the
\* form returns for sample i.
SampleActivity(i, form) == get_activity(heap, stream[i], form).act.m
SampleStdev2(i, form) == get_activity(heap, stream[i], form).stdev.m

\* C6: the cumulative activities returned have one entry per sample, in the
\* order of the samples, and the k-th is the sum of the requested activity of
\* the first k samples.
C6_CumulativeIsPrefixSum ==
    (IsCumulative /\ ret.raised = "none") =>
        /\ Len(ret.cum) = Len(stream)
        /\ \A k \in 1..Len(stream) :
              ret.cum[k] = SumSeq([i \in 1..k |-> SampleActivity(i, ret.form)])

\* C6's case: three samples, the second of a smaller activity than the
\* first, so that sorting or not summing would show.
C6_Witness ==
    /\ IsCumulative
    /\ ret.raised = "none"
    /\ Len(ret.cum) = 3
    /\ SampleActivity(2, ret.form) > 0
    /\ SampleActivity(1, ret.form) > SampleActivity(2, ret.form)
    /\ SampleActivity(3, ret.form) > 0

\* C7: with repeated counts the k-th standard deviation returned is the
\* quadrature sum of the standard deviations of all of the first k samples.
C7_StdevIsQuadratureOfAllPrior ==
    (IsCumulative /\ ret.raised = "none" /\ ret.tuple) =>
        /\ Len(ret.stdevs) = Len(stream)
        /\ \A k \in 1..Len(stream) :
              ret.stdevs[k] = SumSeq([i \in 1..k |-> SampleStdev2(i, ret.form)])

\* C7's case: three samples of non-zero standard deviation, where the sum
\* over all three differs from the sum over the last two.
C7_Witness ==
    /\ IsCumulative
    /\ ret.raised = "none"
    /\ ret.tuple
    /\ Len(ret.stdevs) = 3
    /\ \A i \in 1..3 : SampleStdev2(i, ret.form) > 0
    /\ ret.stdevs[3] > SampleStdev2(2, ret.form) + SampleStdev2(3, ret.form)

\* Some vial of the stream is repeated.
StreamRepeated ==
    \E p \in VialPlaces : heap[stream[p[1]][p[2]]].repeated

\* C8: on a stream with all backgrounds substracted and some vial repeated,
\* get_cumulative_activity succeeds and returns the pair of the cumulative
\* activities and the standard deviations, one entry per sample each, also
\* when some samples have no repeated vial.  Stated for the forms total and
\* soluble; the insoluble form fails besides on samples of fewer than three
\* vials, where the sum is a bare int.
C8_RepeatedStreamReturnsPair ==
    (IsCumulative /\ AllSubstracted /\ StreamRepeated
        /\ ret.form \in {"total", "soluble"})
      => /\ ret.raised = "none"
         /\ ret.tuple
         /\ Len(ret.cum) = Len(stream)
         /\ Len(ret.stdevs) = Len(stream)

\* C9: on a stream whose vials all went through substract_background the
\* cumulative activities returned never decrease.
C9_CumulativeNonDecreasing ==
    (IsCumulative /\ ret.raised = "none") =>
        \A k \in 1..(Len(ret.cum) - 1) : ret.cum[k] <= ret.cum[k + 1]

\* C9's case: a vial was clipped to zero, and the series still rises.
C9_Witness ==
    /\ IsCumulative
    /\ ret.raised = "none"
    /\ Len(ret.cum) = 3
    /\ ret.cum[3] > ret.cum[2]
    /\ ret.cum[2] = ret.cum[1]
    /\ \E p \in VialPlaces : heap[stream[p[1]][p[2]]].activity = 0

(* ----------------------- claims on a LIBRASample ---------------------- *)

\* The sum of the activities of the vials of sample 1 at positions lo..hi.
PositionalSum(lo, hi) ==
    SumSeq([j \in 1..Len(stream[1]) |->
              IF lo <= j /\ j <= hi THEN heap[stream[1][j]].activity ELSE 0])

\* C10: for a LIBRASample of 0..MaxVials vials the soluble activity is the sum
\* over the vials at index 0 and 1, the insoluble activity the sum over the
\* vials at index >= 2, and the total activity their sum: each vial once.
C10_ActivitiesArePositionalSums ==
    ret.op = "LIBRASample.get_activity" =>
        /\ ret.form = "soluble" => ret.value.act.m = PositionalSum(1, 2)
        /\ ret.form = "insoluble" => ret.value.act.m = PositionalSum(3, MaxVials)
        /\ ret.form = "total" =>
              /\ ret.value.act.m = PositionalSum(1, MaxVials)
              /\ ret.value.act.m
                    = get_soluble_activity(heap, stream[1]).act.m
                        + get_insoluble_activity(heap, stream[1]).act.m

\* C10's case: the total of a sample of MaxVials vials whose soluble and
\* insoluble parts both count, the second vial unlike the third.
C10_Witness ==
    /\ ret.op = "LIBRASample.get_activity"
    /\ ret.form = "total"
    /\ Len(stream[1]) = MaxVials
    /\ PositionalSum(1, 2) > 0
    /\ PositionalSum(3, MaxVials) > PositionalSum(1, 2)
    /\ heap[stream[1][2]].activity # heap[stream[1][3]].activity

\* The sum of the squared standard deviations of the vials of sample 1 at
\* positions lo..hi.
PositionalVar(lo, hi) ==
    SumSeq([j \in 1..Len(stream[1]) |->
              IF lo <= j /\ j <= hi THEN heap[stream[1][j]].stdev2 ELSE 0])

\* C11: when some vial of the LIBRASample is repeated each getter returns the
\* pair (activity, stdev), the stdev being the quadrature sum over exactly the
\* vials summed for the activity, and the total's squared stdev the sum of the
\* soluble and the insoluble ones; when no vial is repeated each getter
\* returns the activity alone.
C11_StdevOverTheVialsSummed ==
    ret.op = "LIBRASample.get_activity" =>
        /\ ret.value.tuple <=> is_repeated(heap, stream[1])
        /\ ~ret.value.tuple => ret.value.stdev = NoStdev
        /\ ret.value.tuple =>
              /\ ret.form = "soluble" => ret.value.stdev.m = PositionalVar(1, 2)
              /\ ret.form = "insoluble"
                    => ret.value.stdev.m = PositionalVar(3, MaxVials)
              /\ ret.form = "total" =>
                    /\ ret.value.stdev.m = PositionalVar(1, MaxVials)
                    /\ ret.value.stdev.m
                          = get_soluble_activity(heap, stream[1]).stdev.m
                              + get_insoluble_activity(heap, stream[1]).stdev.m

\* C11's case: the total of a sample of MaxVials vials, some repeated and some
\* not, whose soluble and insoluble standard deviations both count and differ.
C11_Witness ==
    /\ ret.op = "LIBRASample.get_activity"
    /\ ret.form = "total"
    /\ ret.value.tuple
    /\ Len(stream[1]) = MaxVials
    /\ \E j \in 1..MaxVials : ~heap[stream[1][j]].repeated
    /\ PositionalVar(1, 2) > PositionalVar(3, MaxVials)
    /\ PositionalVar(3, MaxVials) > 0
    /\ heap[stream[1][2]].stdev2 > 0

(* -------------------- claims on extract_info_from_label --------------- *)

IsExtract == ret.op = "extract_info_from_label"

\* The label has its separators at h1 < u < h2 < h3 and nowhere else: a
\* hyphen at h1, the underscore at u, hyphens at h2 and h3.
SeparatorsAt(label, h1, u, h2, h3) ==
    /\ h1 < u /\ u < h2 /\ h2 < h3
    /\ \A k \in 1..Len(label) :
          /\ label[k] = "-" <=> k \in {h1, h2, h3}
          /\ label[k] = "_" <=> k = u

\* The places of character c in the label.
Places(label, c) == {k \in 1..Len(label) : label[k] = c}

\* The label is <volume>-<stream>_<run>-<sample>-<vial> with five tokens
\* free of hyphens and underscores.
WellFormed(label) ==
    \E u \in Places(label, "_") : \E h1, h2, h3 \in Places(label, "-") :
        SeparatorsAt(label, h1, u, h2, h3)

\* C12: for a label <volume>-<stream>_<run>-<sample>-<vial> whose five tokens
\* hold no hyphen and no underscore extract_info_from_label returns those five
\* tokens under volume, stream, run_nb, sample_nb and vial_nb; "1L-IV_2-1-3"
\* gives 1L, IV, 2, 1, 3 and "bad-label" raises ValueError.
C12_ReturnsTheFiveTokens ==
    IsExtract =>
        /\ \A u \in Places(ret.label, "_") :
           \A h1, h2, h3 \in Places(ret.label, "-") :
              SeparatorsAt(ret.label, h1, u, h2, h3) =>
                /\ ret.result.raised = "none"
                /\ ret.result.info
                     = [volume |-> SubSeq(ret.label, 1, h1 - 1),
                        stream |-> SubSeq(ret.label, h1 + 1, u - 1),
                        run_nb |-> SubSeq(ret.label, u + 1, h2 - 1),
                        sample_nb |-> SubSeq(ret.label, h2 + 1, h3 - 1),
                        vial_nb |-> SubSeq(ret.label, h3 + 1, Len(ret.label))]
        /\ ret.label = ExampleLabel =>
              ret.result = [raised |-> "none",
                            info |-> [volume |-> <<"1", "L">>,
                                      stream |-> <<"I", "V">>,
                                      run_nb |-> <<"2">>,
                                      sample_nb |-> <<"1">>,
                                      vial_nb |-> <<"3">>]]
        /\ ret.label = BadLabel => ret.result.raised = "ValueError"

\* C12's case: a label of five non-empty tokens, the run number unlike the
\* sample number, was taken apart.
C12_Witness ==
    /\ IsExtract
    /\ WellFormed(ret.label)
    /\ ret.result.raised = "none"
    /\ \A f \in DOMAIN ret.result.info : ret.result.info[f] # <<>>
    /\ ret.result.info.run_nb # ret.result.info.sample_nb

IsGas == ret.op = "create_gas_streams"

\* What the labels of the input say: the samples whose label has the format,
\* and the stream, run number and sample number of sample i.
Parsed(infos) == {i \in 1..Len(infos) : infos[i].raised = "none"}
StreamAt(infos, i) == infos[i].info.stream
RunAt(infos, i) == infos[i].info.run_nb
SampleNbAt(infos, i) == infos[i].info.sample_nb

\* The places (s, k) of the LIBRASamples returned, s = 1 for the IV stream and
\* s = 2 for the OV stream, and the LIBRASample at a place.
LibraPlaces(streams) ==
    {p \in (1..2) \X (1..MaxInput) :
        Len(streams) = 2 /\ p[2] <= Len(streams[p[1]])}
StreamName(s) == IF s = 1 THEN IV ELSE OV

\* The samples do not all carry the same run number.
MixedRuns(infos) ==
    \E i, j \in Parsed(infos) : RunAt(infos, i) # RunAt(infos, j)

\* C14: create_gas_streams fails, before any LIBRASample or GasStream is
\* constructed, whenever the input samples, of whichever stream, do not all
\* carry the same run number in their labels.
C14_MixedRunsFailBeforeConstruction ==
    (IsGas /\ MixedRuns(Infos(input.samples)))
      => /\ ret.result.raised # "none"
         /\ ret.result.built = 0

\* The LIBRASample at place p holds, in input order, exactly the samples of
\* its stream that have the sample number of its first sample.
HoldsItsGroup(infos, streams, p) ==
    /\ streams[p[1]][p[2]].samples # <<>>
    /\ \A a, b \in 1..Len(streams[p[1]][p[2]].samples) :
          a < b => streams[p[1]][p[2]].samples[a] < streams[p[1]][p[2]].samples[b]
    /\ {streams[p[1]][p[2]].samples[a] :
            a \in 1..Len(streams[p[1]][p[2]].samples)}
          = {i \in 1..Len(infos) :
               /\ StreamAt(infos, i) = StreamName(p[1])
               /\ SampleNbAt(infos, i)
                    = SampleNbAt(infos, streams[p[1]][p[2]].samples[1])}

\* The places at which sample i is held.
HeldAt(streams, i) ==
    {<<p, a>> \in LibraPlaces(streams) \X (1..MaxInput) :
        /\ a <= Len(streams[p[1]][p[2]].samples)
        /\ streams[p[1]][p[2]].samples[a] = i}

GroupedInFirstSeenOrder(infos, streams) ==
    /\ Len(streams) = 2
    /\ \A p \in LibraPlaces(streams) : HoldsItsGroup(infos, streams, p)
    /\ \A p, q \in LibraPlaces(streams) :
          (p[1] = q[1] /\ p[2] < q[2])
             => streams[p[1]][p[2]].samples[1] < streams[q[1]][q[2]].samples[1]
    /\ \A i \in 1..Len(infos) : Cardinality(HeldAt(streams, i)) = 1

\* C15: in the streams built the LIBRASamples of a stream come in the order in
\* which their sample numbers were first seen in the input, each holds exactly
\* the input samples of that stream and sample number, in input order, and
\* every input sample is in exactly one LIBRASample of exactly one stream.
C15_GroupsInFirstSeenOrder ==
    (IsGas /\ ret.result.raised = "none") =>
        GroupedInFirstSeenOrder(Infos(input.samples), ret.result.streams)

\* C15's case: three IV samples, the second sample number seen between two
\* samples of the first one, and the first-seen order not the sorted one.
C15_Witness ==
    /\ IsGas
    /\ ret.result.raised = "none"
    /\ Len(ret.result.streams[1]) = 2
    /\ ret.result.streams[1][1].samples = <<1, 3>>
    /\ ret.result.streams[1][2].samples = <<2>>
    /\ SampleNbAt(Infos(input.samples), 1) = <<"2">>
    /\ SampleNbAt(Infos(input.samples), 2) = <<"1">>

\* The samples carry one run number and the table has no entry for the group
\* (stream and sample number) of some sample.
GroupWithoutTime(infos, table) ==
    \E i \in Parsed(infos) :
        /\ StreamAt(infos, i) \in {IV, OV}
        /\ \A j \in Parsed(infos) : RunAt(infos, j) = RunAt(infos, i)
        /\ <<StreamAt(infos, i), TimeKey(RunAt(infos, i), SampleNbAt(infos, i))>>
              \notin DOMAIN table

\* C16: when, for an input of one run number, the table has no entry for the
\* group of some sample, create_gas_streams raises an error and returns no
\* stream, whichever group it is.
C16_MissingTimestampFails ==
    (IsGas /\ GroupWithoutTime(Infos(input.samples), input.timestamps))
      => /\ ret.result.raised # "none"
         /\ ret.result.streams = <<>>

\* C16's case: the key of the second OV group is the missing one, found after
\* LIBRASamples of the groups before it were made.
C16_Witness ==
    /\ IsGas
    /\ ret.result.raised = "KeyError"
    /\ ret.result.built = 2
    /\ ret.result.streams = <<>>
    /\ Len(input.samples) = 3
    /\ ~MixedRuns(Infos(input.samples))
    /\ StreamAt(Infos(input.samples), 3) = OV
    /\ GroupWithoutTime(Infos(input.samples), input.timestamps)

\* A non-empty list of samples with labels of the format, of streams IV and
\* OV and of one run number.
WellLabelled(infos) ==
    /\ infos # <<>>
    /\ Parsed(infos) = 1..Len(infos)
    /\ ~MixedRuns(infos)
    /\ \A i \in Parsed(infos) : StreamAt(infos, i) \in {IV, OV}

\* Every sample is held by a LIBRASample of the stream of its name.
EachInItsStream(infos, streams) ==
    \A i \in 1..Len(infos) : \E h \in HeldAt(streams, i) :
        StreamName(h[1][1]) = StreamAt(infos, i)

\* C17: for a non-empty list of samples with well-formed labels, one run
\* number and all timestamps present create_gas_streams builds one GasStream
\* per stream name of the labels, holding that stream's samples, also when
\* the input holds one stream name only.  Stated for the names IV and OV;
\* any other name is refused with ValueError.
C17_OneStreamPerStreamName ==
    (/\ IsGas
     /\ WellLabelled(Infos(input.samples))
     /\ DOMAIN input.timestamps = TableKeys)
      => /\ ret.result.raised = "none"
         /\ EachInItsStream(Infos(input.samples), ret.result.streams)

(* -------------------- claims on LSCSample.__init__ -------------------- *)

IsInit == ret.op = "LSCSample.__init__"

\* C18: an LSCSample built from one count value, a scalar or an array of
\* length one, has stdev 0, is not repeated, and has that value as activity.
C18_OneCountIsNotRepeated ==
    (IsInit /\ Len(input.values) = 1)
      => /\ heap[1].stdev2 = 0
         /\ ~heap[1].repeated
         /\ heap[1].activity.values = input.values

\* C18's case: the one value came as an array of length one.
C18_Witness ==
    /\ IsInit
    /\ input.array
    /\ Len(input.values) = 1
    /\ input.values[1] = MaxCount
    /\ ~heap[1].repeated

\* All the count values are the same.
Identical(values) == \A i \in 1..Len(values) : values[i] = values[1]

\* The sums of the first k values are floating-point numbers, for every k: no
\* addition of the mean is rounded.
ExactSums(values) ==
    \A k \in 1..Len(values) :
        Round(SumSeq(SubSeq(values, 1, k))) = SumSeq(SubSeq(values, 1, k))

C20_RelativeTimesInSampleOrder ==
    ret.op = "GasStream.relative_times" =>
        /\ Len(ret.value) = Len(input.times)
        /\ \A i \in 1..Len(input.times) :
              ret.value[i] = input.times[i].minutes - input.start_time.minutes

\* C20's case: the timestamps of three samples do not increase, one sample is
\* earlier than the start, and times came as str and as datetime.
C20_Witness ==
    /\ ret.op = "GasStream.relative_times"
    /\ Len(ret.value) = 3
    /\ ret.value[1] > ret.value[2]
    /\ ret.value[2] < 0
    /\ ret.value[3] > ret.value[2]
    /\ input.times[1].str
    /\ ~input.times[2].str
    /\ input.start_time.str

(* -------------------- claims on stdev_addition ------------------------ *)

IsBq1 == ret.op = "LSCFileReader.get_bq1_values_with_labels"

\* The rows of the file that carry the label.
Occurrences(labels, label) == {i \in 1..Len(labels) : labels[i] = label}

\* The values of the rows that carry the label, in file order.
ValuesOf(labels, values, label) ==
    LET at == Occurrences(labels, label)
    IN [k \in 1..Cardinality(at) |->
           values[CHOOSE i \in at : Cardinality({j \in at : j <= i}) = k]]

\* The number of values the returned dict holds, over all its labels.
RECURSIVE TotalValues(_, _)
TotalValues(d, keys) ==
    IF keys = {} THEN 0
    ELSE LET k == CHOOSE x \in keys : TRUE
         IN Len(d[k].values) + TotalValues(d, keys \ {k})

\* C22: get_bq1_values_with_labels, on a read file with labels, keeps every
\* count: when every label occurs once each label is mapped to its single
\* value; when some label occurs more than once every label (those occurring
\* once too) is mapped to the list of all its values in file order; the
\* number of values over all labels is the number of rows; and the call fails
\* when the labels and the values differ in number.
C22_KeepsEveryCount ==
    IsBq1 /\ input.vial_labels.given /\ input.data.read =>
        LET labels == input.vial_labels.labels
            values == input.data.values
            seen == {labels[i] : i \in 1..Len(labels)}
            once == \A l \in seen : Cardinality(Occurrences(labels, l)) = 1
        IN IF Len(labels) # Len(values) THEN ret.raised # "none"
           ELSE /\ ret.raised = "none"
                /\ DOMAIN ret.value = seen
                /\ \A l \in seen :
                      ret.value[l] = IF once
                                     THEN AsFloat(ValuesOf(labels, values, l))
                                     ELSE AsList(ValuesOf(labels, values, l))
                /\ TotalValues(ret.value, DOMAIN ret.value) = Len(values)

\* A file where one label occurs twice, with different values, and another
\* once: both are mapped to lists.
C22_Witness ==
    /\ IsBq1 /\ ret.raised = "none"
    /\ input.vial_labels.labels = <<"1L-BL-1", "1L-IV_2-1-1", "1L-BL-1">>
    /\ input.data.values = <<2, 1, 1>>
    /\ ret.value["1L-BL-1"] = AsList(<<2, 1>>)
    /\ ret.value["1L-IV_2-1-1"] = AsList(<<1>>)

(* ----------------------- claims on create_sample ---------------------- *)

IsCreate(module) == ret.op = "create_sample" /\ ret.module = module

\* The file where create_sample looks for the background.
BackgroundFile ==
    input.files[IF ret.call.background_filename = None THEN ret.call.filename
                ELSE ret.call.background_filename]

\* C23: tritium_model.create_sample, called for a label present in the file
\* with no reader cached for the filename and no background_label, returns a
\* sample with background_substracted = TRUE from which the first of
\* "1L-BL-1", "1L-BL-2", "1L-BL-3" present in the background file has been
\* substracted, and raises ValueError if and only if none of them is present.
C23_FirstBackgroundPresentIsSubstracted ==
    /\ IsCreate("tritium_model")
    /\ ret.call.label \in input.files[ret.call.filename]
    /\ ret.call.background_label = None
    => IF FirstBackground(BackgroundFile) = 0
       THEN ret.raised = "ValueError"
       ELSE /\ ret.raised = "none"
            /\ ret.returned
            /\ ret.sample.background_substracted
            /\ ret.sample.activity =
                  Max(0, Bq1Of(ret.call.label)
                         - Bq1Of(BackgroundLabels[FirstBackground(BackgroundFile)]))

\* C24: after a call of create_sample for a filename, of either module, the
\* module's all_file_readers holds exactly one reader for that filename.
C24_OneReaderPerFilenameUsed ==
    \A module \in {"helpers", "tritium_model"} :
        IsCreate(module) =>
            LET readers == heap[module].all_file_readers
            IN Cardinality({i \in 1..Len(readers) :
                              readers[i].file_path = ret.call.filename}) = 1

(* --------------- claims on the construction of the streams ------------ *)

IsBuild == ret.op = "tritium_model.build"

\* C25: when the repeat-count lists of a sample with a sample time are built,
\* the list has one entry per vial, all different objects, and at the position
\* of every vial whose repeat-count filename is None the entry is a sample of
\* activity zero, named after that vial and tagged background_substracted.
C25_EmptySampleForMissingRepeat ==
    /\ IsBuild /\ input.actual_sample_time # None
    /\ \E v \in 1..Len(input.repeat_count_filenames) :
          input.repeat_count_filenames[v] = None
    =>  LET repeats == input.repeat_count_filenames
            built == ret.libra_samples_repeat
        IN /\ ret.raised = "none"
           /\ Len(built) = Len(repeats)
           /\ \A v, w \in 1..Len(repeats) : v # w => built[v] # built[w]
           /\ \A v \in 1..Len(repeats) :
                 repeats[v] = None =>
                    /\ ret.objects[built[v]].name = VialLabel[v]
                    /\ ret.objects[built[v]].sample.activity = 0
                    /\ ret.objects[built[v]].sample.background_substracted

(* ------------------------ claims on lsc_repeats ----------------------- *)

\* C26: after LSCRepeatSample.substract_background has substracted the
\* background, avg_activity is not negative, and it is zero when the call
\* warned that the activity is set to zero.
C26_AvgActivityClippedAtZero ==
    ret.op = "LSCRepeatSample.substract_background" /\ ret.raised = "none" =>
        /\ heap[ret.self].avg_activity >= 0
        /\ ret.warned => heap[ret.self].avg_activity = 0

\* The averaged activity a vial contributes: the background-corrected
\* average, zero when the difference was negative.
Contribution(v) == Max(0, heap[v].avg_activity)

\* The contributions of the vials of sample i that the form counts.
RECURSIVE SumContributions(_)
SumContributions(part) ==
    IF part = <<>> THEN 0
    ELSE Contribution(Head(part)) + SumContributions(Tail(part))
FormActivity(i, form) ==
    CASE form = "soluble" -> SumContributions(SolubleVials(stream[i]))
      [] form = "insoluble" -> SumContributions(InsolubleVials(stream[i]))
      [] form = "total" -> SumContributions(stream[i])

\* C27: on a RepeatGasStream whose vials have all been background-substracted,
\* get_cumulative_activity(form) returns the prefix sums of the samples'
\* activity of that form, each vial contributing its background-corrected
\* averaged activity; for the form "total", where every sample has a vial to
\* sum, it does return.
C27_RepeatCumulativeIsPrefixSum ==
    /\ ret.op = "RepeatGasStream.get_cumulative_activity"
    /\ \A v \in VialsOf(stream) : heap[v].background_substracted
    => /\ ret.form = "total" => ret.raised = "none"
       /\ ret.raised = "none" =>
             /\ Len(ret.cum) = Len(stream)
             /\ \A k \in 1..Len(stream) :
                   ret.cum[k] = SumSeq([i \in 1..k |-> FormActivity(i, ret.form)])

(* --------------- claims on LIBRASample.substract_background ------------ *)

\* The step is a call of LIBRASample.substract_background that raises
\* ValueError.
LibraCallRaises ==
    ret'.op = "LIBRASample.substract_background" /\ ret'.raised = "ValueError"

\* The vials of the LIBRASample of the call, and the index j of the first of
\* them that was already background-substracted before the call.
CalledVials == stream[ret'.self]
FirstSubstracted ==
    CHOOSE j \in 1..Len(CalledVials) :
        /\ heap[CalledVials[j]].background_substracted
        /\ \A i \in 1..(j - 1) : ~heap[CalledVials[i]].background_substracted

\* The background sample as the vial at index i meets it: as before the
\* call, unless it is itself a vial of an earlier index, substracted from
\* itself by then.
BackgroundAt(i) ==
    IF \E k \in 1..(i - 1) : CalledVials[k] = ret'.bg
    THEN Substracted(heap[ret'.bg], heap[ret'.bg])
    ELSE heap[ret'.bg]

\* C28 as stated: when LIBRASample.substract_background raises ValueError at
\* the vial of index j, every vial of index < j has its activity, its stdev
\* and its flag changed, the vials of index >= j are unchanged, and the
\* background sample is not modified.
C28_EarlierVialsChanged ==
    [][LibraCallRaises =>
        /\ \A i \in 1..(FirstSubstracted - 1) :
              /\ heap'[CalledVials[i]].activity # heap[CalledVials[i]].activity
              /\ heap'[CalledVials[i]].stdev2 # heap[CalledVials[i]].stdev2
              /\ heap'[CalledVials[i]].background_substracted
                    # heap[CalledVials[i]].background_substracted
        /\ \A i \in FirstSubstracted..Len(CalledVials) :
              heap'[CalledVials[i]] = heap[CalledVials[i]]
        /\ heap'[ret'.bg] = heap[ret'.bg]
      ]_vars

\* C28, amended: when LIBRASample.substract_background raises ValueError at
\* the vial of index j, every vial of index < j has been background-
\* substracted in list order (its flag set, its activity reduced by the
\* background's and clipped at zero, its stdev added in quadrature to the
\* background's), the vials of index >= j are unchanged, and the background
\* sample is not modified unless it is itself a vial of index < j.
C28_EarlierVialsSubstracted ==
    [][LibraCallRaises =>
        /\ \A i \in 1..(FirstSubstracted - 1) :
              /\ ~heap[CalledVials[i]].background_substracted
              /\ heap'[CalledVials[i]].background_substracted
              /\ heap'[CalledVials[i]] =
                    Substracted(heap[CalledVials[i]], BackgroundAt(i))
        /\ \A i \in FirstSubstracted..Len(CalledVials) :
              heap'[CalledVials[i]] = heap[CalledVials[i]]
        /\ (\A i \in 1..(FirstSubstracted - 1) : CalledVials[i] # ret'.bg)
              => heap'[ret'.bg] = heap[ret'.bg]
      ]_vars

\* A call on three vials with the first vial as the background has raised at
\* the second vial: the first vial has been substracted from itself, the
\* third has not been touched.
C28_Witness ==
    /\ ret.op = "LIBRASample.substract_background" /\ ret.raised = "ValueError"
    /\ Len(stream[1]) = 3 /\ ret.bg = 1
    /\ heap[-1].stdev2 = 0
    /\ heap[1].background_substracted /\ heap[1].stdev2 = 2 * MaxVar
    /\ heap[2].background_substracted
    /\ ~heap[3].background_substracted

====
